---- MODULE Spec2Model ----
(***************************************************************************)
(* Monte Carlo simulation and statistics engine of rwai-financials         *)
(* (src/src/lib/monte-carlo.ts).                                           *)
(*                                                                         *)
(* Numbers.  A JavaScript number is modelled as a record [n, d]: the       *)
(* rational n/d when d > 0, and the non-finite values when d = 0           *)
(* (n = 0: NaN, n = 1: Infinity, n = -1: -Infinity), which is what the     *)
(* IEEE division n/0 yields.  Populations handed to the statistics         *)
(* functions are sequences of integers.                                    *)
(*                                                                         *)
(* Doubles.  Where the code multiplies a count by a decimal literal and    *)
(* floors the product (calculateVaR, calculateExpectedShortfall,           *)
(* calculatePercentiles) the rounding of IEEE-754 binary64 decides the     *)
(* index, so the literal is carried as the exact binary64 value scaled by  *)
(* 2^60, in three limbs of 20 bits, and the product is rounded to 53       *)
(* significant bits, ties to even.                                         *)
(***************************************************************************)
EXTENDS Integers, Sequences, FiniteSets, TLC

(***************************************************************************)
(* Bounds of the model.                                                    *)
(***************************************************************************)
\* longest base population drawn for the statistics functions
MaxLen == 4
\* largest numSimulations of a run
MaxSims == 2
\* most draws taken from one generator in the generator experiment
MaxDraws == 3
\* largest count of a call of the triangular sampler
MaxSamples == 2
\* largest timeSteps of a call of the path simulator
MaxSteps == 3

(***************************************************************************)
(* JavaScript numbers.                                                     *)
(***************************************************************************)
NaN == [n |-> 0, d |-> 0]

PosInf == [n |-> 1, d |-> 0]

NegInf == [n |-> -1, d |-> 0]

\* the value `undefined` (an array read out of range)
Undefined == [n |-> 0, d |-> -1]

FromInt(i) == [n |-> i, d |-> 1]

IsNaN(x) == x.d = 0 /\ x.n = 0

IsUndefined(x) == x.d < 0

IsFinite(x) == x.d > 0

Sign(i) == IF i > 0 THEN 1 ELSE IF i < 0 THEN -1 ELSE 0

\* a / b for two integers, as IEEE division: x/0 is NaN or an infinity
DivInt(a, b) ==
  IF b = 0 THEN [n |-> Sign(a), d |-> 0]
  ELSE IF b < 0 THEN [n |-> -a, d |-> -b]
  ELSE [n |-> a, d |-> b]

\* unary minus; -undefined is NaN
Neg(x) == IF IsUndefined(x) THEN NaN ELSE [n |-> -(x.n), d |-> x.d]

\* x < y; every comparison with NaN is false
Lt(x, y) ==
  IF IsNaN(x) \/ IsNaN(y) THEN FALSE
  ELSE IF x.d = 0 /\ y.d = 0 THEN x.n < y.n
  ELSE IF x.d = 0 THEN x.n < 0
  ELSE IF y.d = 0 THEN y.n > 0
  ELSE x.n * y.d < y.n * x.d

\* x <= y
Le(x, y) ==
  IF IsNaN(x) \/ IsNaN(y) THEN FALSE
  ELSE IF x.d = 0 /\ y.d = 0 THEN x.n <= y.n
  ELSE IF x.d = 0 THEN x.n < 0
  ELSE IF y.d = 0 THEN y.n > 0
  ELSE x.n * y.d <= y.n * x.d

\* x === y on numbers
NumEq(x, y) ==
  IF IsNaN(x) \/ IsNaN(y) THEN FALSE
  ELSE IF x.d = 0 \/ y.d = 0 THEN x.d = y.d /\ x.n = y.n
  ELSE x.n * y.d = y.n * x.d

Mul(x, y) ==
  IF IsNaN(x) \/ IsNaN(y) THEN NaN
  ELSE IF x.d = 0 \/ y.d = 0
    THEN [n |-> Sign(x.n) * Sign(y.n), d |-> 0]
  ELSE [n |-> x.n * y.n, d |-> x.d * y.d]

Add(x, y) ==
  IF IsNaN(x) \/ IsNaN(y) \/ IsUndefined(x) \/ IsUndefined(y) THEN NaN
  ELSE IF x.d = 0 /\ y.d = 0 THEN (IF x.n = y.n THEN x ELSE NaN)
  ELSE IF x.d = 0 THEN x
  ELSE IF y.d = 0 THEN y
  ELSE IF x.d = y.d THEN [n |-> x.n + y.n, d |-> x.d]
  ELSE [n |-> x.n * y.d + y.n * x.d, d |-> x.d * y.d]

\* Math.min(a, b) and Math.max(a, b): NaN when either argument is NaN
MathMin(a, b) ==
  IF IsNaN(a) \/ IsNaN(b) THEN NaN ELSE IF Lt(b, a) THEN b ELSE a

MathMax(a, b) ==
  IF IsNaN(a) \/ IsNaN(b) THEN NaN ELSE IF Lt(a, b) THEN b ELSE a

\* Math.floor of a finite rational
FloorDiv(a, b) == a \div b

(***************************************************************************)
(* binary64 literals and the product count * literal.                      *)
(***************************************************************************)
Limb == 1048576

\* the binary64 nearest to the decimal literal, times 2^60, high limb first
Dbl(lit) ==
  CASE lit = "1"    -> <<1048576, 0, 0>>
    [] lit = "0.99" -> <<1038090, 251658, 251648>>
    [] lit = "0.95" -> <<996147, 209715, 209664>>
    [] lit = "0.9"  -> <<943718, 419430, 419456>>
    [] lit = "0.8"  -> <<838860, 838860, 838912>>
    [] lit = "0.75" -> <<786432, 0, 0>>
    [] lit = "0.5"  -> <<524288, 0, 0>>
    [] lit = "0.29" -> <<304087, 41943, 41920>>
    [] lit = "0.25" -> <<262144, 0, 0>>
    [] lit = "0.1"  -> <<104857, 629145, 629152>>
    [] lit = "0.05" -> <<52428, 838860, 838864>>
    [] lit = "0.01" -> <<10485, 796917, 796918>>
    [] lit = "0"    -> <<0, 0, 0>>

\* the decimal literal in hundredths, the value the source text denotes
Hundredths(lit) ==
  CASE lit = "1"    -> 100
    [] lit = "0.99" -> 99
    [] lit = "0.95" -> 95
    [] lit = "0.9"  -> 90
    [] lit = "0.8"  -> 80
    [] lit = "0.75" -> 75
    [] lit = "0.5"  -> 50
    [] lit = "0.29" -> 29
    [] lit = "0.25" -> 25
    [] lit = "0.1"  -> 10
    [] lit = "0.05" -> 5
    [] lit = "0.01" -> 1
    [] lit = "0"    -> 0

\* 1 - x for a binary64 x in [0.5, 1]: the difference is exact
OneMinus(x) ==
  LET lo == (Limb - x[3]) % Limb
      b1 == IF x[3] = 0 THEN 0 ELSE 1
      mid == (Limb - x[2] - b1) % Limb
      b2 == IF x[2] + b1 = 0 THEN 0 ELSE 1
  IN <<Limb - x[1] - b2, mid, lo>>

\* number of bits of a natural number
RECURSIVE BitLen(_)
BitLen(k) == IF k = 0 THEN 0 ELSE 1 + BitLen(k \div 2)

RECURSIVE Pow2(_)
Pow2(e) == IF e = 0 THEN 1 ELSE 2 * Pow2(e - 1)

\* the exact product m * x as <<integer part, fraction limbs>>
ExactMul(m, x) ==
  LET p0 == m * x[3]
      p1 == m * x[2] + (p0 \div Limb)
      p2 == m * x[1] + (p1 \div Limb)
  IN [k |-> p2 \div Limb, r |-> <<p2 % Limb, p1 % Limb, p0 % Limb>>]

\* number of significant bits of the product p, from its leading limb
SigBits(p) ==
  IF p.k > 0 THEN 60 + BitLen(p.k)
  ELSE IF p.r[1] > 0 THEN 40 + BitLen(p.r[1])
  ELSE IF p.r[2] > 0 THEN 20 + BitLen(p.r[2])
  ELSE BitLen(p.r[3])

\* number of low bits that do not fit the 53-bit significand
ExcessBits(len) == IF len > 53 THEN len - 53 ELSE 0

\* the lowest limb r3 rounded to a multiple of s = 2^e, ties to even
RoundLow(r3, s, e) ==
  LET q == r3 \div s
      rem == r3 % s
      up == e > 0 /\ (2 * rem > s \/ (2 * rem = s /\ q % 2 = 1))
  IN (IF up THEN q + 1 ELSE q) * s

\* the product p with its lowest limb replaced by lo, carries propagated
CarryUp(p, lo) ==
  LET mid == p.r[2] + (lo \div Limb)
      hi == p.r[1] + (mid \div Limb)
  IN [k |-> p.k + (hi \div Limb), r |-> <<hi % Limb, mid % Limb, lo % Limb>>]

RoundProduct(p, e) == CarryUp(p, RoundLow(p.r[3], Pow2(e), e))

\* m * x rounded to binary64 (53 significant bits, ties to even), for
\* products below 2^13; the spacing of doubles there is below one limb
MulRound(m, x) ==
  LET p == ExactMul(m, x)
  IN RoundProduct(p, ExcessBits(SigBits(p)))

\* Math.floor(m * x)
FloorMul(m, x) == MulRound(m, x).k

(***************************************************************************)
(* binary64 sums, differences and quotients.  A value is its sign and its  *)
(* magnitude: integer part k and three limbs of fraction, units of 2^-60.  *)
(***************************************************************************)
Zero64 == [neg |-> FALSE, k |-> 0, r |-> <<0, 0, 0>>]

\* NaN, told by an integer part of -1
NaN64 == [neg |-> FALSE, k |-> -1, r |-> <<0, 0, 0>>]

IsNaN64(a) == a.k < 0

\* the binary64 nearest to h / 100
D64(h) ==
  CASE h = -300 -> [neg |-> TRUE, k |-> 3, r |-> <<0, 0, 0>>]
    [] h = -70 -> [neg |-> TRUE, k |-> 0, r |-> <<734003, 209715, 209664>>]
    [] h = -10 -> [neg |-> TRUE, k |-> 0, r |-> <<104857, 629145, 629152>>]
    [] h = 0 -> [neg |-> FALSE, k |-> 0, r |-> <<0, 0, 0>>]
    [] h = 10 -> [neg |-> FALSE, k |-> 0, r |-> <<104857, 629145, 629152>>]
    [] h = 30 -> [neg |-> FALSE, k |-> 0, r |-> <<314572, 838860, 838848>>]
    [] h = 70 -> [neg |-> FALSE, k |-> 0, r |-> <<734003, 209715, 209664>>]
    [] h = 100 -> [neg |-> FALSE, k |-> 1, r |-> <<0, 0, 0>>]
    [] h = 110 -> [neg |-> FALSE, k |-> 1, r |-> <<104857, 629145, 629248>>]
    [] h = 140 -> [neg |-> FALSE, k |-> 1, r |-> <<419430, 419430, 419328>>]
    [] h = 200 -> [neg |-> FALSE, k |-> 2, r |-> <<0, 0, 0>>]
    [] h = 230 -> [neg |-> FALSE, k |-> 2, r |-> <<314572, 838860, 838656>>]
    [] h = 400 -> [neg |-> FALSE, k |-> 4, r |-> <<0, 0, 0>>]
    [] h = 600 -> [neg |-> FALSE, k |-> 6, r |-> <<0, 0, 0>>]

IsZero64(a) == a.k = 0 /\ a.r = <<0, 0, 0>>

Neg64(a) ==
  IF IsZero64(a) \/ IsNaN64(a) THEN a ELSE [a EXCEPT !.neg = ~a.neg]

Abs64(a) == [a EXCEPT !.neg = FALSE]

\* |a| < |b|
MagLt(a, b) ==
  \/ a.k < b.k
  \/ a.k = b.k /\ a.r[1] < b.r[1]
  \/ a.k = b.k /\ a.r[1] = b.r[1] /\ a.r[2] < b.r[2]
  \/ a.k = b.k /\ a.r[1] = b.r[1] /\ a.r[2] = b.r[2] /\ a.r[3] < b.r[3]

\* a < b and a <= b; a comparison with NaN is false
Lt64(a, b) ==
  IF IsNaN64(a) \/ IsNaN64(b) THEN FALSE
  ELSE IF a.neg # b.neg THEN a.neg
  ELSE IF a.neg THEN MagLt(b, a) ELSE MagLt(a, b)

Le64(a, b) == ~IsNaN64(a) /\ ~IsNaN64(b) /\ ~Lt64(b, a)

\* |a| + |b|, exact
MagAdd(a, b) ==
  LET lo == a.r[3] + b.r[3]
      mid == a.r[2] + b.r[2] + (lo \div Limb)
      hi == a.r[1] + b.r[1] + (mid \div Limb)
  IN [k |-> a.k + b.k + (hi \div Limb),
      r |-> <<hi % Limb, mid % Limb, lo % Limb>>]

\* |a| - |b| for |a| >= |b|, exact
MagSub(a, b) ==
  LET lo == a.r[3] - b.r[3]
      mid == a.r[2] - b.r[2] - (IF lo < 0 THEN 1 ELSE 0)
      hi == a.r[1] - b.r[1] - (IF mid < 0 THEN 1 ELSE 0)
  IN [k |-> a.k - b.k - (IF hi < 0 THEN 1 ELSE 0),
      r |-> <<(hi + Limb) % Limb, (mid + Limb) % Limb, (lo + Limb) % Limb>>]

\* a magnitude rounded to 53 significant bits, ties to even, with a sign
Round64(neg, p) ==
  LET q == RoundProduct(p, ExcessBits(SigBits(p)))
  IN [neg |-> neg /\ (q.k # 0 \/ q.r # <<0, 0, 0>>), k |-> q.k, r |-> q.r]

\* a + b in binary64
Add64(a, b) ==
  IF a.neg = b.neg THEN Round64(a.neg, MagAdd(a, b))
  ELSE IF MagLt(a, b) THEN Round64(b.neg, MagSub(b, a))
  ELSE Round64(a.neg, MagSub(a, b))

\* a - b in binary64
Sub64(a, b) == Add64(a, Neg64(b))

\* the lowest limb r3 of a truncated quotient rounded to a multiple of
\* s = 2^e, ties to even, inexact telling that the division left a remainder
RoundLowInexact(r3, s, inexact) ==
  LET q == r3 \div s
      rem == r3 % s
      up == \/ 2 * rem > s
            \/ 2 * rem = s /\ (inexact \/ q % 2 = 1)
  IN (IF up THEN q + 1 ELSE q) * s

\* |a| / m truncated to 2^-60 and the remainder, for a natural m below 2048
MagDiv(a, m) ==
  LET r0 == a.k % m
      n1 == r0 * Limb + a.r[1]
      n2 == (n1 % m) * Limb + a.r[2]
      n3 == (n2 % m) * Limb + a.r[3]
  IN [k |-> a.k \div m, r |-> <<n1 \div m, n2 \div m, n3 \div m>>,
      rem |-> n3 % m]

\* the truncated quotient p rounded to 53 significant bits
RoundQuotient(p) ==
  CarryUp(p, RoundLowInexact(p.r[3], Pow2(ExcessBits(SigBits(p))),
                             p.rem # 0))

\* a / m in binary64 for a natural m and a quotient that is 0 or of
\* magnitude 2^-6 or more, so that the truncated quotient holds a rounding
\* bit; 0 / 0 is NaN
Div64(a, m) ==
  IF m = 0 \/ IsNaN64(a) THEN NaN64
  ELSE Round64(a.neg, RoundQuotient(MagDiv(a, m)))

(***************************************************************************)
(* Array helpers.                                                          *)
(***************************************************************************)
\* values[i] with a 0-based index; `undefined` outside the array
At(s, i) == IF i >= 0 /\ i < Len(s) THEN FromInt(s[i + 1]) ELSE Undefined

\* the sum of the elements of s at lo..hi whose value is in vs: each value
\* times the number of places it holds
RECURSIVE SumByValue(_, _, _, _)
SumByValue(s, lo, hi, vs) ==
  IF vs = {} THEN 0
  ELSE LET v == CHOOSE w \in vs : TRUE
       IN v * Cardinality({i \in lo..hi : s[i] = v})
            + SumByValue(s, lo, hi, vs \ {v})

\* s[lo] + ... + s[hi]
SumRange(s, lo, hi) == SumByValue(s, lo, hi, {s[i] : i \in lo..hi})

SumSeq(s) == SumRange(s, 1, Len(s))

\* the elements of s equal to the least of vs, then those equal to the next
RECURSIVE SortByValue(_, _)
SortByValue(s, vs) ==
  IF vs = {} THEN <<>>
  ELSE LET least == CHOOSE v \in vs : \A w \in vs : v - w <= 0
       IN SelectSeq(s, LAMBDA x : x = least) \o SortByValue(s, vs \ {least})

\* [...values].sort((a, b) => a - b): the elements of a copy in ascending
\* order of a - b
SortAsc(s) == SortByValue(s, {s[i] : i \in 1..Len(s)})

\* values.sort((a, b) => a - b): the argument itself is put in order
ArgumentAfterSort_inPlace(values) == SortAsc(values)

\* the argument after "[...values].sort((a, b) => a - b)": the spread makes
\* a copy and sort orders the copy
ArgumentAfterSort(values) == values

\* the functions that sort
SortingFunctions ==
  {"calculateVaR", "calculateExpectedShortfall", "calculatePercentiles",
   "calculateStatistics"}

\* the argument values after a call of fn
ArgumentAfter(fn, values) ==
  IF fn \in SortingFunctions THEN ArgumentAfterSort(values) ELSE values

\* Math.min(...values) and Math.max(...values); Infinity and -Infinity
\* for the empty list
MinOf(s) ==
  IF s = <<>> THEN PosInf
  ELSE FromInt(CHOOSE v \in {s[i] : i \in 1..Len(s)} :
                 \A w \in {s[i] : i \in 1..Len(s)} : v <= w)

MaxOf(s) ==
  IF s = <<>> THEN NegInf
  ELSE FromInt(CHOOSE v \in {s[i] : i \in 1..Len(s)} :
                 \A w \in {s[i] : i \in 1..Len(s)} : v >= w)

(***************************************************************************)
(* Statistics reducer.                                                     *)
(***************************************************************************)
\* Math.floor(sortedValues.length * (1 - confidenceLevel))
TailIndex(len, confidenceLevel) ==
  FloorMul(len, OneMinus(Dbl(confidenceLevel)))

\* calculateVaR returning the order statistic itself, the sign not flipped
calculateVaR_unnegated(vals, confidenceLevel) ==
  LET sortedValues == SortAsc(vals)
      index == TailIndex(Len(sortedValues), confidenceLevel)
  IN At(sortedValues, index)

calculateVaR(vals, confidenceLevel) ==
  LET sortedValues == SortAsc(vals)
      index == TailIndex(Len(sortedValues), confidenceLevel)
  IN Neg(At(sortedValues, index))

\* the loop "for (i = 0; i < varIndex; i++) sum += sortedValues[i]": the
\* sum of the elements at i..varIndex-1 (0-based), NaN once an index
\* outside the list adds undefined
TailSum(sortedValues, i, varIndex) ==
  IF i < 0 \/ varIndex > Len(sortedValues) THEN NaN
  ELSE FromInt(SumRange(sortedValues, i + 1, varIndex))

calculateExpectedShortfall(vals, confidenceLevel) ==
  LET sortedValues == SortAsc(vals)
      varIndex == TailIndex(Len(sortedValues), confidenceLevel)
      sum == TailSum(sortedValues, 0, varIndex)
  IN IF IsFinite(sum) THEN DivInt(-(sum.n), varIndex) ELSE NaN

\* the loop "for (i = 0; i < varIndex; i++) sum += sortedValues[i]" over
\* values given in hundredths, each addition rounded to binary64
RECURSIVE SumLoop64(_, _, _, _)
SumLoop64(sortedValues, i, varIndex, sum) ==
  IF i >= varIndex THEN sum
  ELSE IF i + 1 > Len(sortedValues) THEN NaN64
  ELSE SumLoop64(sortedValues, i + 1, varIndex,
                 Add64(sum, D64(sortedValues[i + 1])))

\* calculateExpectedShortfall on values given in hundredths:
\* -sum / varIndex in binary64
calculateExpectedShortfallOfDecimals(vals, confidenceLevel) ==
  Neg64(Div64(SumLoop64(SortAsc(vals), 0,
                        TailIndex(Len(vals), confidenceLevel), Zero64),
              TailIndex(Len(vals), confidenceLevel)))

\* calculateVaR on values given in hundredths: -sortedValues[index],
\* NaN for an index outside the list
calculateVaROfDecimals(vals, confidenceLevel) ==
  IF TailIndex(Len(vals), confidenceLevel) >= Len(vals) THEN NaN64
  ELSE Neg64(D64(SortAsc(vals)[TailIndex(Len(vals), confidenceLevel) + 1]))

\* the default value of the parameter percentiles
DefaultPercentiles ==
  <<"0.01", "0.05", "0.1", "0.25", "0.5", "0.75", "0.9", "0.95", "0.99">>

\* the property name `p${p * 100}`: the string of the binary64 product,
\* carried as that product
PercentileLabel(p) == MulRound(100, Dbl(p))

\* Math.floor(p * (sortedValues.length - 1)); -1 stands for the negative
\* index of the empty list
PercentileIndex(p, len) ==
  IF len = 0 THEN -1 ELSE FloorMul(len - 1, Dbl(p))

RECURSIVE PercentileLoop(_, _, _)
PercentileLoop(sortedValues, percentiles, result) ==
  IF percentiles = <<>> THEN result
  ELSE LET p == percentiles[1]
           index == PercentileIndex(p, Len(sortedValues))
           lbl == PercentileLabel(p)
           v == At(sortedValues, index)
       IN PercentileLoop(sortedValues, Tail(percentiles),
            [l \in DOMAIN result \cup {lbl} |->
               IF l = lbl THEN v ELSE result[l]])

\* calculatePercentiles indexing the list as given, the sort left out
calculatePercentiles_unsorted(vals, percentiles) ==
  PercentileLoop(vals, percentiles, [l \in {} |-> NaN])

calculatePercentiles(vals, percentiles) ==
  PercentileLoop(SortAsc(vals), percentiles, [l \in {} |-> NaN])

\* the bin index without the case of the maximum and without the clamp
BinIndexOf_unclamped(value, min, max, range, binCount) ==
  FloorDiv((value - min.n) * binCount, range)

\* the bin a value is counted in (0-based); binWidth = range / binCount,
\* so (value - min) / binWidth is (value - min) * binCount / range
BinIndexOf(value, min, max, range, binCount) ==
  IF NumEq(FromInt(value), max) THEN binCount - 1
  ELSE LET q == FloorDiv((value - min.n) * binCount, range)
       IN IF q < binCount - 1 THEN q ELSE binCount - 1

\* "frequencies[binIndex]++" for every value: bin i (0-based) ends with
\* the number of values whose binIndex is i; an index outside
\* 0..binCount-1 reaches none of the bins
CountLoop(vals, min, max, range, binCount) ==
  [i \in 1..binCount |->
     Cardinality({j \in 1..Len(vals) :
        BinIndexOf(vals[j], min, max, range, binCount) = i - 1})]

\* calculateHistogram with the loop of the bin edges running to
\* i < binCount
calculateHistogram_exclusiveEdges(vals, binCount) ==
  LET min == MinOf(vals)
      max == MaxOf(vals)
      range == IF Lt(min, max) THEN max.n - min.n ELSE 1
      binWidth == DivInt(range, binCount)
      bins == [i \in 1..binCount |->
                 Add(min, Mul(FromInt(i - 1), binWidth))]
      frequencies == CountLoop(vals, min, max, range, binCount)
  IN [bins |-> bins, frequencies |-> frequencies]

calculateHistogram(vals, binCount) ==
  LET min == MinOf(vals)
      max == MaxOf(vals)
      range == IF Lt(min, max) THEN max.n - min.n ELSE 1
      binWidth == DivInt(range, binCount)
      bins == [i \in 1..(binCount + 1) |->
                 Add(min, Mul(FromInt(i - 1), binWidth))]
      frequencies == CountLoop(vals, min, max, range, binCount)
  IN [bins |-> bins, frequencies |-> frequencies]

\* jStat.mean: the sum divided by the length
Mean(vals) == DivInt(SumSeq(vals), Len(vals))

\* jStat.median: the middle element of the sorted copy, or the mean of the
\* two middle elements
Median(vals) ==
  LET a == SortAsc(vals)
      len == Len(a)
  IN IF len = 0 THEN NaN
     ELSE IF len % 2 = 0 THEN DivInt(a[len \div 2] + a[len \div 2 + 1], 2)
     ELSE FromInt(a[len \div 2 + 1])

\* the integer square root of v, known to lie in lo..hi
RECURSIVE ISqrtIn(_, _, _)
ISqrtIn(v, lo, hi) ==
  IF lo >= hi THEN lo
  ELSE LET mid == (lo + hi + 1) \div 2
       IN IF mid * mid <= v THEN ISqrtIn(v, mid, hi)
          ELSE ISqrtIn(v, lo, mid - 1)

\* jStat.stdev: the population standard deviation
\* sqrt(n * sum(x^2) - sum(x)^2) / n, the root truncated to an integer
Stdev(vals) ==
  LET len == Len(vals)
      sq == [i \in 1..len |-> vals[i] * vals[i]]
      v == len * SumSeq(sq) - SumSeq(vals) * SumSeq(vals)
  IN DivInt(ISqrtIn(v, 0, 32767), len)

\* the default value of the parameter binCount
DefaultBinCount == 20

calculateStatistics(vals) ==
  [values |-> ArgumentAfterSort(vals),
   mean |-> Mean(vals),
   median |-> Median(vals),
   min |-> MinOf(vals),
   max |-> MaxOf(vals),
   std |-> Stdev(vals),
   percentiles |-> calculatePercentiles(vals, DefaultPercentiles),
   VaR95 |-> calculateVaR(vals, "0.95"),
   VaR99 |-> calculateVaR(vals, "0.99"),
   expectedShortfall95 |-> calculateExpectedShortfall(vals, "0.95"),
   histogram |-> calculateHistogram(vals, DefaultBinCount)]

(***************************************************************************)
(* Target probability and drawdown.                                        *)
(***************************************************************************)
\* values.filter(val => val > targetReturn).length / values.length
probabilityOfAchievingTarget_strict(values, targetReturn) ==
  DivInt(Cardinality({i \in 1..Len(values) : values[i] > targetReturn}),
         Len(values))

\* values.filter(val => val >= targetReturn).length / values.length
probabilityOfAchievingTarget(values, targetReturn) ==
  DivInt(Cardinality({i \in 1..Len(values) : values[i] >= targetReturn}),
         Len(values))

\* the body of "for (const value of values)" from the i-th value on:
\* the peak is raised, drawdown = (peak - value) / peak, and
\* maxDrawdown = Math.max(maxDrawdown, drawdown)
RECURSIVE DrawdownLoop(_, _, _, _)
DrawdownLoop(values, i, peak, maxDrawdown) ==
  IF i > Len(values) THEN maxDrawdown
  ELSE LET value == values[i]
           newPeak == IF value > peak THEN value ELSE peak
           drawdown == DivInt(newPeak - value, newPeak)
       IN DrawdownLoop(values, i + 1, newPeak,
                       MathMax(maxDrawdown, drawdown))

\* maxDrawdown = 0 and peak = values[0]; the loop does not run on the
\* empty list
calculateMaxDrawdown(values) ==
  IF values = <<>> THEN FromInt(0)
  ELSE DrawdownLoop(values, 1, values[1], FromInt(0))

(***************************************************************************)
(* State.                                                                  *)
(***************************************************************************)
VARIABLES
  streams,     \* seedrandom: the output sequence of each seed
  gens,        \* generators made by createRng and their outputs so far
  run,         \* the calls of the two orchestrators, in invocation order
  population,  \* the list handed to a statistics function
  call         \* the last call of a statistics function and its result

vars == <<streams, gens, run, population, call>>

(***************************************************************************)
(* RNG provider.                                                           *)
(***************************************************************************)
\* the outputs of a uniform generator, in thousandths: 0, exp(-2), exp(-1/2)
Uniforms == {0, 135, 607}

\* the seeds the orchestrators pass to createRng
PlainSeed == "token-holder-returns"

FluctSeed == "token-holder-returns-price-fluctuations"

Seeds == {PlainSeed, FluctSeed}

\* seedrandom(seed) is a fixed sequence for each seed; the sequences tried
\* are the periodic ones with these periods
Patterns == {<<607, 135, 0>>, <<0, 0, 135, 607, 607>>, <<135, 607>>}

\* the j-th output (j >= 1) of seedrandom(seed)
StreamAt(seed, j) ==
  LET pat == streams[seed] IN pat[((j - 1) % Len(pat)) + 1]

\* the argument of createRng: absent, or a string
SeedArgs ==
  {[given |-> FALSE, str |-> ""]} \cup
  {[given |-> TRUE, str |-> s] : s \in Seeds \cup {""}}

\* "if (seed)": undefined and the empty string are falsy
createRng(seed) ==
  IF seed.given /\ seed.str # ""
    THEN [kind |-> "seeded", seed |-> seed.str, pos |-> 0]
    ELSE [kind |-> "native", seed |-> "", pos |-> 0]

\* the sequences of k values the next k calls of rng() can return:
\* one for a seeded generator, any for Math.random
DrawsFrom(rng, k) ==
  IF rng.kind = "seeded"
    THEN {[j \in 1..k |-> StreamAt(rng.seed, rng.pos + j)]}
    ELSE [1..k -> Uniforms]

Advance(rng, k) == [rng EXCEPT !.pos = @ + k]

(***************************************************************************)
(* Distribution samplers.                                                  *)
(***************************************************************************)
\* Math.sqrt(-2.0 * Math.log(u)) on the grid, to two decimals;
\* Math.log(0) is -Infinity
SqrtNeg2Log(u) ==
  CASE u = 0   -> PosInf
    [] u = 135 -> [n |-> 200, d |-> 100]
    [] u = 607 -> [n |-> 100, d |-> 100]

\* Math.cos(2.0 * Math.PI * u) on the grid, to two decimals
Cos2Pi(u) ==
  CASE u = 0   -> [n |-> 100, d |-> 100]
    [] u = 135 -> [n |-> 66, d |-> 100]
    [] u = 607 -> [n |-> -78, d |-> 100]

\* the Box-Muller variate of two uniforms
BoxMuller(u1, u2) == Mul(SqrtNeg2Log(u1), Cos2Pi(u2))

\* generateNormalDistribution(mean, std, count, rng), the uniforms us being
\* what rng returns: sample i uses us[2i-1] and us[2i]
generateNormalDistribution(mean, std, count, us) ==
  [i \in 1..count |->
     LET u1 == us[2 * i - 1]
         u2 == us[2 * i]
         z0 == BoxMuller(u1, u2)
     IN Add(Mul(z0, FromInt(std)), FromInt(mean))]

(***************************************************************************)
(* Triangular sampler.  min, max and mode are given in hundredths and      *)
(* stand for the binary64 nearest to them; a uniform is in thousandths.    *)
(***************************************************************************)
\* s thousandths as a value
Milli64(s) ==
  [neg |-> FALSE, k |-> s \div 1000,
   r |-> <<((s % 1000) * Limb) \div 1000, 0, 0>>]

\* "r < modePosition" with modePosition = (mode - min) / range: a quotient
\* by a zero range is NaN, Infinity or -Infinity; otherwise the test is
\* decided by the exact values, which the parameters tried keep apart
BelowModePosition(u, min, max, mode) ==
  IF max - min = 0 THEN mode - min > 0
  ELSE IF max - min > 0 THEN u * (max - min) < 1000 * (mode - min)
  ELSE u * (max - min) > 1000 * (mode - min)

\* Math.sqrt(q * range * side) with q in thousandths and the decimal
\* values R and S of range and side in hundredths: 0 for a zero factor,
\* |range| when the radicand is the rounded square of range, else the
\* root to three decimals
SqrtOfProduct(q, R, S, range, side) ==
  IF q = 0 \/ R = 0 \/ S = 0 THEN Zero64
  ELSE IF q = 1000 /\ side = range THEN Abs64(range)
  ELSE IF R * S < 0 THEN NaN64
  ELSE Milli64(ISqrtIn((q * R * S) \div 10, 0, 32767))

\* the body of the loop for the draw r = u / 1000
TriangularValue(min, max, mode, u) ==
  IF BelowModePosition(u, min, max, mode)
    THEN Add64(D64(min),
               SqrtOfProduct(u, max - min, mode - min,
                             Sub64(D64(max), D64(min)),
                             Sub64(D64(mode), D64(min))))
    ELSE Sub64(D64(max),
               SqrtOfProduct(1000 - u, max - min, max - mode,
                             Sub64(D64(max), D64(min)),
                             Sub64(D64(max), D64(mode))))

\* generateTriangularDistribution(min, max, mode, count, rng), the
\* uniforms us being what rng returns: sample i uses us[i]
generateTriangularDistribution(min, max, mode, count, us) ==
  [i \in 1..count |-> TriangularValue(min, max, mode, us[i])]

(***************************************************************************)
(* Path simulator.  A price is [m, lg]: m times exp(lg / 1000).            *)
(***************************************************************************)
PriceOf(x) == [m |-> x, lg |-> 0]

\* the price m * exp(lg / 1000) for a finite m of magnitude 1 or more, as
\* a binary64: 0 once it is below exp(-746), the half of the least
\* positive value being exp(-745.13), and infinite from exp(710) on, the
\* greatest finite value being exp(709.78)
Ranged(m, lg) ==
  IF lg + 1000 * BitLen((IF m.n < 0 THEN -m.n ELSE m.n) \div m.d) < -746000
    THEN PriceOf(FromInt(0))
  ELSE IF lg >= 710000 THEN PriceOf([n |-> Sign(m.n), d |-> 0])
  ELSE [m |-> m, lg |-> lg]

\* prevPrice * Math.exp(logReturn)
PriceStep(prevPrice, logReturn) ==
  IF IsNaN(logReturn) \/ IsNaN(prevPrice.m) THEN PriceOf(NaN)
  ELSE IF logReturn.d = 0 /\ logReturn.n < 0
    THEN (IF prevPrice.m.d = 0 THEN PriceOf(NaN) ELSE PriceOf(FromInt(0)))
  ELSE IF logReturn.d = 0
    THEN (IF prevPrice.m.n = 0 THEN PriceOf(NaN)
          ELSE PriceOf([n |-> Sign(prevPrice.m.n), d |-> 0]))
  ELSE IF prevPrice.m.d = 0 \/ prevPrice.m.n = 0 THEN prevPrice
  ELSE Ranged(prevPrice.m, prevPrice.lg + logReturn.n)

\* two calls of rng() for every price, the first included
PathDraws_perPrice(timeSteps) == IF timeSteps > 0 THEN 2 * timeSteps ELSE 0

\* the number of calls of rng() a path of timeSteps prices makes
PathDraws(timeSteps) == IF timeSteps > 1 THEN 2 * (timeSteps - 1) ELSE 0

\* (drift - 0.5 * volatility * volatility) + volatility * z in thousandths,
\* with timeStepInYears = timeStepInMonths / 12 and its root to three
\* decimals
LogReturn(annualDrift, annualVolatility, timeStepInMonths, z) ==
  LET drift == (annualDrift * timeStepInMonths * 1000) \div 12
      volatility == IF timeStepInMonths = 1 THEN annualVolatility * 289
                    ELSE annualVolatility * 1000
      vz == Mul(FromInt(volatility), z)
  IN IF IsFinite(vz)
       THEN FromInt(drift - ((volatility * volatility) \div 2000)
                    + (vz.n \div vz.d))
       ELSE vz

RECURSIVE PathLoop(_, _, _, _, _, _, _)
PathLoop(prices, t, timeSteps, annualDrift, annualVolatility, timeStepInMonths, us) ==
  IF t < timeSteps
    THEN LET u1 == us[2 * t - 1]
             u2 == us[2 * t]
             z == BoxMuller(u1, u2)
             logReturn == LogReturn(annualDrift, annualVolatility,
                                    timeStepInMonths, z)
             prevPrice == prices[t]
             newPrice == PriceStep(prevPrice, logReturn)
         IN PathLoop(Append(prices, newPrice), t + 1, timeSteps, annualDrift,
                     annualVolatility, timeStepInMonths, us)
    ELSE prices

simulateTokenPriceFluctuations(initialPrice, annualDrift, annualVolatility, timeSteps, timeStepInMonths, us) ==
  PathLoop(<<PriceOf(FromInt(initialPrice))>>, 1, timeSteps, annualDrift,
           annualVolatility, timeStepInMonths, us)

(***************************************************************************)
(* Simulation orchestrators.                                               *)
(***************************************************************************)
\* Math.max(0, Math.min(100, x))
Clamp(x) == MathMax(FromInt(0), MathMin(FromInt(100), x))

\* the caller-supplied pure return functions tried: a banded score of the
\* two rates, an exit score that reads the last price of the path when
\* one is passed, and a guarded score that throws on a utilization below 50
ReturnFns == {"bands", "exit", "guarded"}

NoPrices == <<>>

calculateReturnFn(fn, utilization, salvageRate, tokenPrices) ==
  IF fn = "bands"
    THEN (IF Le(FromInt(50), utilization) THEN 5 ELSE -5)
         + (IF Le(FromInt(50), salvageRate) THEN 5 ELSE -5)
  ELSE IF fn = "guarded"
    THEN (IF Le(FromInt(50), salvageRate) THEN 7 ELSE 2)
  ELSE IF tokenPrices # NoPrices
    THEN LET last == tokenPrices[Len(tokenPrices)]
         IN IF Lt(FromInt(0), last.m) /\ last.lg >= 0 THEN 10 ELSE -10
  ELSE IF Le(FromInt(50), utilization) THEN 5 ELSE 0

\* the call of the return function throws
Raises(fn, utilization, salvageRate, tokenPrices) ==
  fn = "guarded" /\ Lt(utilization, FromInt(50))

\* the parameter objects tried
ParamChoices ==
  {[pricePerToken |-> 10, months |-> 2,
    utilizationMean |-> 50, utilizationStd |-> 10,
    salvageValueMean |-> 95, salvageValueStd |-> 10,
    tokenPriceVolatility |-> 30, tokenPriceDrift |-> 5,
    calculateReturnFn |-> "bands"],
   [pricePerToken |-> 10, months |-> 1,
    utilizationMean |-> 50, utilizationStd |-> 0,
    salvageValueMean |-> 5, salvageValueStd |-> 10,
    tokenPriceVolatility |-> 30, tokenPriceDrift |-> 5,
    calculateReturnFn |-> "bands"],
   [pricePerToken |-> 10, months |-> 2,
    utilizationMean |-> 5, utilizationStd |-> 10,
    salvageValueMean |-> 50, salvageValueStd |-> 0,
    tokenPriceVolatility |-> 0, tokenPriceDrift |-> 5,
    calculateReturnFn |-> "exit"],
   [pricePerToken |-> 10, months |-> 0,
    utilizationMean |-> 50, utilizationStd |-> 10,
    salvageValueMean |-> 50, salvageValueStd |-> 10,
    tokenPriceVolatility |-> 30, tokenPriceDrift |-> -20,
    calculateReturnFn |-> "exit"],
   [pricePerToken |-> 10, months |-> 3,
    utilizationMean |-> 50, utilizationStd |-> 10,
    salvageValueMean |-> 50, salvageValueStd |-> 10,
    tokenPriceVolatility |-> 30, tokenPriceDrift |-> 5,
    calculateReturnFn |-> "guarded"]}

RunIds == {1, 2}

NoResult == [values |-> <<>>]

IdleRun ==
  [pc |-> "idle", mode |-> "none", params |-> {}, numSimulations |-> 0,
   rng |-> createRng([given |-> FALSE, str |-> ""]), i |-> 0,
   returns |-> <<>>, calls |-> <<>>, result |-> NoResult]

\* the loop condition of both orchestrators
LoopCond_inclusive(i, numSimulations) == i <= numSimulations

LoopCond(i, numSimulations) == i < numSimulations

\* the entry of an orchestrator with the generator kept across calls
\* instead of made by the call, the calls being made one after the other
Enter_sharedRng(r, mode, seed, params, numSimulations) ==
  /\ run[r].pc = "idle"
  /\ \A q \in RunIds : q < r => run[q].pc = "done"
  /\ run' = [run EXCEPT ![r] =
       [pc |-> "loop", mode |-> mode, params |-> params,
        numSimulations |-> numSimulations,
        rng |-> IF r > 1 THEN run[r - 1].rng
                ELSE createRng([given |-> TRUE, str |-> seed]),
        i |-> 0, returns |-> <<>>, calls |-> <<>>, result |-> NoResult]]
  /\ UNCHANGED <<streams, gens, population, call>>

\* entry of an orchestrator up to the loop: the generator is made and the
\* list of returns is empty
Enter(r, mode, seed, params, numSimulations) ==
  /\ run[r].pc = "idle"
  /\ run' = [run EXCEPT ![r] =
       [pc |-> "loop", mode |-> mode, params |-> params,
        numSimulations |-> numSimulations,
        rng |-> createRng([given |-> TRUE, str |-> seed]), i |-> 0,
        returns |-> <<>>, calls |-> <<>>, result |-> NoResult]]
  /\ UNCHANGED <<streams, gens, population, call>>

\* an exception thrown by the return function, caught by the loop, which
\* goes on with the next trial
Propagate_caught(rec) == [rec EXCEPT !.i = @ + 1]

\* an exception thrown by the return function leaves the orchestrator: the
\* loop has no try, nothing is pushed and nothing is returned
Propagate(rec) == [rec EXCEPT !.pc = "raised"]

\* one generator at module level, which every call draws from
GeneratorOf_shared(r) == run[1].rng

\* "const rng = createRng(...)" is a local of the call: the loop of a call
\* draws from the generator that call made
GeneratorOf(r) == run[r].rng

\* one iteration of the loop "for (i = 0; i < numSimulations; i++)"
Iterate(r, mode) ==
  /\ run[r].pc = "loop"
  /\ run[r].mode = mode
  /\ LoopCond(run[r].i, run[r].numSimulations)
  /\ LET p == run[r].params
         k == IF mode = "plain" THEN 4 ELSE 4 + PathDraws(p.months)
     IN \E us \in DrawsFrom(GeneratorOf(r), k) :
          LET utilization ==
                Clamp(generateNormalDistribution(p.utilizationMean,
                        p.utilizationStd, 1, SubSeq(us, 1, 2))[1])
              salvageRate ==
                Clamp(generateNormalDistribution(p.salvageValueMean,
                        p.salvageValueStd, 1, SubSeq(us, 3, 4))[1])
              tokenPrices ==
                IF mode = "plain" THEN NoPrices
                ELSE simulateTokenPriceFluctuations(p.pricePerToken,
                       p.tokenPriceDrift, p.tokenPriceVolatility, p.months,
                       1, SubSeq(us, 5, k))
              simulatedReturn ==
                calculateReturnFn(p.calculateReturnFn, utilization,
                                  salvageRate, tokenPrices)
          IN IF Raises(p.calculateReturnFn, utilization, salvageRate,
                       tokenPrices)
               THEN run' = [run EXCEPT ![r] =
                      Propagate(
                        [@ EXCEPT !.rng = Advance(@, k),
                                  !.calls = Append(@,
                                     [i |-> run[r].i,
                                      utilization |-> utilization,
                                      salvageRate |-> salvageRate,
                                      tokenPrices |-> tokenPrices,
                                      raised |-> TRUE,
                                      ret |-> 0])])]
               ELSE run' = [run EXCEPT ![r] =
                      [@ EXCEPT !.rng = Advance(@, k),
                                !.i = @ + 1,
                                !.returns = Append(@, simulatedReturn),
                                !.calls = Append(@,
                                   [i |-> run[r].i,
                                    utilization |-> utilization,
                                    salvageRate |-> salvageRate,
                                    tokenPrices |-> tokenPrices,
                                    raised |-> FALSE,
                                    ret |-> simulatedReturn])]]
  /\ UNCHANGED <<streams, gens, population, call>>

\* the loop is over: "return calculateStatistics(returns)"
Leave(r, mode) ==
  /\ run[r].pc = "loop"
  /\ run[r].mode = mode
  /\ ~LoopCond(run[r].i, run[r].numSimulations)
  /\ run' = [run EXCEPT ![r] =
       [@ EXCEPT !.pc = "done",
                 !.result = calculateStatistics(run[r].returns)]]
  /\ UNCHANGED <<streams, gens, population, call>>

SimCounts == 0..MaxSims

simulateTokenHolderReturns_call(r) ==
  \E p \in ParamChoices, n \in SimCounts : Enter(r, "plain", PlainSeed, p, n)

simulateTokenHolderReturns_trial(r) == Iterate(r, "plain")

simulateTokenHolderReturns_return(r) == Leave(r, "plain")

simulateTokenHolderReturnsWithPriceFluctuations_call(r) ==
  \E p \in ParamChoices, n \in SimCounts : Enter(r, "fluct", FluctSeed, p, n)

simulateTokenHolderReturnsWithPriceFluctuations_trial(r) ==
  Iterate(r, "fluct")

simulateTokenHolderReturnsWithPriceFluctuations_return(r) ==
  Leave(r, "fluct")

(***************************************************************************)
(* Specification of the simulation runs.                                   *)
(***************************************************************************)
NoCall == [fn |-> "none"]

IdleGen == [made |-> FALSE, arg |-> [given |-> FALSE, str |-> ""],
            rng |-> createRng([given |-> FALSE, str |-> ""]), out |-> <<>>]

GenIds == {1, 2}

Init ==
  /\ streams \in [Seeds -> Patterns]
  /\ gens = [g \in GenIds |-> IdleGen]
  /\ run = [r \in RunIds |-> IdleRun]
  /\ population = <<>>
  /\ call = NoCall

Next ==
  \E r \in RunIds :
    \/ simulateTokenHolderReturns_call(r)
    \/ simulateTokenHolderReturns_trial(r)
    \/ simulateTokenHolderReturns_return(r)
    \/ simulateTokenHolderReturnsWithPriceFluctuations_call(r)
    \/ simulateTokenHolderReturnsWithPriceFluctuations_trial(r)
    \/ simulateTokenHolderReturnsWithPriceFluctuations_return(r)

Spec == Init /\ [][Next]_vars

(***************************************************************************)
(* Specification of the generator experiment: two generators are made by   *)
(* createRng and drawn from in any order.                                  *)
(***************************************************************************)
createRng_call(g, seed) ==
  /\ ~gens[g].made
  /\ gens' = [gens EXCEPT ![g] =
       [made |-> TRUE, arg |-> seed, rng |-> createRng(seed), out |-> <<>>]]
  /\ UNCHANGED <<streams, run, population, call>>

\* one call rng() of the closure createRng returned
rng_call(g) ==
  /\ gens[g].made
  /\ Len(gens[g].out) < MaxDraws
  /\ \E us \in DrawsFrom(gens[g].rng, 1) :
       gens' = [gens EXCEPT ![g] =
         [@ EXCEPT !.rng = Advance(@, 1), !.out = Append(@, us[1])]]
  /\ UNCHANGED <<streams, run, population, call>>

NextRng ==
  \E g \in GenIds :
    \/ \E seed \in SeedArgs : createRng_call(g, seed)
    \/ rng_call(g)

SpecRng == Init /\ [][NextRng]_vars

(***************************************************************************)
(* Specification of the statistics functions: a population is drawn and    *)
(* the functions are applied to it.                                        *)
(***************************************************************************)
ValueSet == {-10, -5, 0, 5}

\* the lists of the scenarios of the specification
ScenarioLists == {<<-10, -5, 0, 5, 10>>, <<1, 1, 1, 1>>}

BaseLists == UNION {[1..k -> ValueSet] : k \in 0..MaxLen} \cup ScenarioLists

\* the lists that are also tried at the sizes of a simulation
LongBases == ScenarioLists \cup {<<5, -10, 0, -5>>, <<0, 5, -5>>, <<-5, -10>>}

\* the list b followed by k more copies of its last element
Padded(b, k) ==
  [i \in 1..(IF b = <<>> THEN 0 ELSE Len(b) + k) |->
     IF i <= Len(b) THEN b[i] ELSE b[Len(b)]]

Pads == {20, 96}

\* one hundred and one values in descending order: 41 times 5, 31 times 0,
\* 29 times -5
Steps == [i \in 1..101 |-> IF i <= 41 THEN 5 ELSE IF i <= 72 THEN 0 ELSE -5]

Populations ==
  BaseLists \cup {Padded(b, k) : b \in LongBases, k \in Pads} \cup {Steps}

\* confidence levels tried; all lie in [0.5, 1]
ConfLevels == {"0.8", "0.95", "0.99", "1"}

PercentileLists ==
  {DefaultPercentiles, <<"1", "0.5", "0.25", "0">>, <<"0.29", "0.5">>}

BinCounts == {1, 4, DefaultBinCount}

InitStats ==
  /\ streams \in [Seeds -> {<<135, 607>>}]
  /\ gens = [g \in GenIds |-> IdleGen]
  /\ run = [r \in RunIds |-> IdleRun]
  /\ population \in Populations
  /\ call = NoCall

\* none of the statistics functions throws: every call returns.  The
\* functions keep no state, so one call per population shows every result.
Returned(fn, arg, ret) ==
  /\ call = NoCall
  /\ call' = [fn |-> fn, arg |-> arg, ret |-> ret, raised |-> "none"]
  /\ population' = ArgumentAfter(fn, population)
  /\ UNCHANGED <<streams, gens, run>>

calculateVaR_call(c) ==
  Returned("calculateVaR", c, calculateVaR(population, c))

calculateExpectedShortfall_call(c) ==
  Returned("calculateExpectedShortfall", c,
           calculateExpectedShortfall(population, c))

calculatePercentiles_call(ps) ==
  Returned("calculatePercentiles", ps, calculatePercentiles(population, ps))

calculateHistogram_call(b) ==
  Returned("calculateHistogram", b, calculateHistogram(population, b))

calculateStatistics_call ==
  Returned("calculateStatistics", "", calculateStatistics(population))

NextStats ==
  \/ \E c \in ConfLevels : calculateVaR_call(c)
  \/ \E c \in ConfLevels : calculateExpectedShortfall_call(c)
  \/ \E ps \in PercentileLists : calculatePercentiles_call(ps)
  \/ \E b \in BinCounts : calculateHistogram_call(b)
  \/ calculateStatistics_call

SpecStats == InitStats /\ [][NextStats]_vars

(***************************************************************************)
(* Specification of the target probability and the drawdown: a series is   *)
(* drawn and the functions are applied to it.                              *)
(***************************************************************************)
SeriesValues == {-5, 0, 5, 10}

\* the series of the scenarios of the specification
ScenarioSeries == {<<100, 120, 90, 110, 80>>, <<1, 2, 3, 4, 5>>}

SeriesSet ==
  UNION {[1..k -> SeriesValues] : k \in 0..MaxLen} \cup ScenarioSeries

Targets == {-5, 0, 3, 5, 11}

InitUtil ==
  /\ streams \in [Seeds -> {<<135, 607>>}]
  /\ gens = [g \in GenIds |-> IdleGen]
  /\ run = [r \in RunIds |-> IdleRun]
  /\ population \in SeriesSet
  /\ call = NoCall

calculateMaxDrawdown_call ==
  Returned("calculateMaxDrawdown", "", calculateMaxDrawdown(population))

probabilityOfAchievingTarget_call(t) ==
  Returned("probabilityOfAchievingTarget", t,
           probabilityOfAchievingTarget(population, t))

NextUtil ==
  \/ calculateMaxDrawdown_call
  \/ \E t \in Targets : probabilityOfAchievingTarget_call(t)

SpecUtil == InitUtil /\ [][NextUtil]_vars

(***************************************************************************)
(* Specification of the samplers: a generator is made, drawn from, and     *)
(* handed to one call of a sampler.                                        *)
(***************************************************************************)
\* the triangles tried, in hundredths: the mode inside, at either end, a
\* single point, decimal fractions, and three that break min <= mode <= max
TriangleChoices ==
  {[min |-> 0, max |-> 400, mode |-> 100],
   [min |-> 0, max |-> 400, mode |-> 0],
   [min |-> 0, max |-> 400, mode |-> 400],
   [min |-> 200, max |-> 200, mode |-> 200],
   [min |-> -300, max |-> 140, mode |-> -300],
   [min |-> -300, max |-> 140, mode |-> 140],
   [min |-> 10, max |-> 70, mode |-> 10],
   [min |-> 0, max |-> 400, mode |-> 600],
   [min |-> 200, max |-> 400, mode |-> 0],
   [min |-> 400, max |-> 0, mode |-> 200]}

SampleCounts == 0..MaxSamples

\* the paths tried: the dashboard's rates, a path without volatility, a
\* yearly step and a volatility of 150
PathChoices ==
  {[initialPrice |-> 10, annualDrift |-> 5, annualVolatility |-> 30,
    timeStepInMonths |-> 1],
   [initialPrice |-> 10, annualDrift |-> -20, annualVolatility |-> 0,
    timeStepInMonths |-> 1],
   [initialPrice |-> 10, annualDrift |-> 5, annualVolatility |-> 30,
    timeStepInMonths |-> 12],
   [initialPrice |-> 10, annualDrift |-> 5, annualVolatility |-> 150,
    timeStepInMonths |-> 1]}

StepCounts == 0..MaxSteps

\* the generator handed to the sampler: a seeded one or Math.random
SamplerSeedArgs ==
  {[given |-> FALSE, str |-> ""], [given |-> TRUE, str |-> PlainSeed]}

InitSamplers ==
  /\ streams \in [Seeds -> {<<0, 0, 135, 607, 607>>}]
  /\ \E seed \in SamplerSeedArgs :
       gens = [g \in GenIds |->
                 IF g = 1
                   THEN [made |-> TRUE, arg |-> seed, rng |-> createRng(seed),
                         out |-> <<>>]
                   ELSE IdleGen]
  /\ run = [r \in RunIds |-> IdleRun]
  /\ population = <<>>
  /\ call = NoCall

\* a call of a sampler with generator g: it takes the uniforms us from g
\* and returns ret
Sampled(g, fn, arg, us, ret) ==
  /\ call = NoCall
  /\ call' = [fn |-> fn, arg |-> arg, ret |-> ret, raised |-> "none",
              before |-> gens[g].rng.pos, after |-> gens[g].rng.pos + Len(us),
              us |-> us]
  /\ gens' = [gens EXCEPT ![g] =
       [@ EXCEPT !.rng = Advance(@, Len(us)), !.out = @ \o us]]
  /\ UNCHANGED <<streams, run, population>>

\* a draw made before the sampler is called
rng_call_before(g) == call = NoCall /\ rng_call(g)

generateTriangularDistribution_call(g, p, count) ==
  /\ gens[g].made
  /\ \E us \in DrawsFrom(gens[g].rng, count) :
       Sampled(g, "generateTriangularDistribution",
               [min |-> p.min, max |-> p.max, mode |-> p.mode,
                count |-> count],
               us,
               generateTriangularDistribution(p.min, p.max, p.mode, count,
                                              us))

simulateTokenPriceFluctuations_call(g, p, timeSteps) ==
  /\ gens[g].made
  /\ \E us \in DrawsFrom(gens[g].rng, PathDraws(timeSteps)) :
       Sampled(g, "simulateTokenPriceFluctuations",
               [initialPrice |-> p.initialPrice, timeSteps |-> timeSteps,
                annualVolatility |-> p.annualVolatility,
                timeStepInMonths |-> p.timeStepInMonths],
               us,
               simulateTokenPriceFluctuations(p.initialPrice, p.annualDrift,
                 p.annualVolatility, timeSteps, p.timeStepInMonths, us))

NextSamplers ==
  \E g \in GenIds :
    \/ rng_call_before(g)
    \/ \E p \in TriangleChoices, count \in SampleCounts :
         generateTriangularDistribution_call(g, p, count)
    \/ \E p \in PathChoices, timeSteps \in StepCounts :
         simulateTokenPriceFluctuations_call(g, p, timeSteps)

SpecSamplers == InitSamplers /\ [][NextSamplers]_vars

(***************************************************************************)
(* Specification of the risk measures on decimal fractions: the values     *)
(* are given in hundredths and stand for the binary64 nearest to them.     *)
(***************************************************************************)
\* positive values, so that no sum cancels
DecimalValues == {10, 30, 70, 110, 230}

\* the sizes of the lists, whose tails at 0.95 have 1, 2 and 3 values
DecimalSizes == {20, 40, 60}

\* n values: k times v, then w
Filled(n, k, v, w) == [i \in 1..n |-> IF i <= k THEN v ELSE w]

DecimalPopulations ==
  {Filled(n, k, v, w) : n \in DecimalSizes, k \in {1, 3},
                        v \in DecimalValues, w \in DecimalValues}

InitDecimals ==
  /\ streams \in [Seeds -> {<<135, 607>>}]
  /\ gens = [g \in GenIds |-> IdleGen]
  /\ run = [r \in RunIds |-> IdleRun]
  /\ population \in DecimalPopulations
  /\ call = NoCall

calculateVaROfDecimals_call(c) ==
  Returned("calculateVaR", c, calculateVaROfDecimals(population, c))

calculateExpectedShortfallOfDecimals_call(c) ==
  Returned("calculateExpectedShortfall", c,
           calculateExpectedShortfallOfDecimals(population, c))

NextDecimals ==
  \/ \E c \in ConfLevels : calculateVaROfDecimals_call(c)
  \/ \E c \in ConfLevels : calculateExpectedShortfallOfDecimals_call(c)

SpecDecimals == InitDecimals /\ [][NextDecimals]_vars

(***************************************************************************)
(* Properties.                                                             *)
(***************************************************************************)
SameRequest(a, b) ==
  /\ run[a].mode = run[b].mode
  /\ run[a].params = run[b].params
  /\ run[a].numSimulations = run[b].numSimulations

\* C1: two finished runs of the same orchestrator with the same parameters,
\* the same return function and the same numSimulations have the same
\* SimulationResult: the same values in the same order and the same
\* statistics.
C1_RerunReproducesResult ==
  \A a, b \in RunIds :
    (run[a].pc = "done" /\ run[b].pc = "done" /\ SameRequest(a, b))
      => run[a].result = run[b].result

\* a run of two or more trials whose values differ has been repeated
C1_Witness ==
  /\ run[1].pc = "done" /\ run[2].pc = "done" /\ SameRequest(1, 2)
  /\ run[1].numSimulations >= 2
  /\ run[1].result.values[1] # run[1].result.values[2]

MinInt(a, b) == IF a < b THEN a ELSE b

\* C2: two generators made by createRng from the same seed string, whatever
\* the string, return the same sequence of values.
C2_SameSeedSameSequence ==
  \A g, h \in GenIds :
    (gens[g].made /\ gens[h].made /\ gens[g].arg.given /\ gens[h].arg.given
       /\ gens[g].arg.str = gens[h].arg.str)
      => \A j \in 1..MinInt(Len(gens[g].out), Len(gens[h].out)) :
           gens[g].out[j] = gens[h].out[j]

\* C3: when a run with numSimulations = N has returned, the return function
\* has been invoked N times, the i-th invocation in trial i, and
\* result.values has length N with values[i] the scalar the i-th invocation
\* returned.
C3_OneInvocationPerTrial ==
  \A r \in RunIds :
    run[r].pc = "done" =>
      /\ Len(run[r].calls) = run[r].numSimulations
      /\ Len(run[r].result.values) = run[r].numSimulations
      /\ \A j \in 1..Len(run[r].calls) :
           /\ run[r].calls[j].i = j - 1
           /\ j <= Len(run[r].result.values)
           /\ run[r].result.values[j] = run[r].calls[j].ret

\* a run of two or more trials has returned with values that differ
C3_Witness ==
  \E r \in RunIds :
    /\ run[r].pc = "done"
    /\ run[r].numSimulations >= 2
    /\ run[r].calls[1].ret # run[r].calls[2].ret

InClosedRange(x, lo, hi) == Le(FromInt(lo), x) /\ Le(x, FromInt(hi))

\* C4: in every trial the utilization and the salvageRate passed to the
\* return function lie in [0, 100], whatever the normal sampler produced.
C4_RatesWithinBounds ==
  \A r \in RunIds :
    \A j \in 1..Len(run[r].calls) :
      /\ InClosedRange(run[r].calls[j].utilization, 0, 100)
      /\ InClosedRange(run[r].calls[j].salvageRate, 0, 100)

\* C5: the frequencies calculateHistogram returns sum to the number of
\* values.
C5_HistogramCountsEveryValue ==
  call.fn = "calculateHistogram"
    => SumSeq(call.ret.frequencies) = Len(population)

\* a histogram of four or more bins over a list with its maximum repeated
\* and a value strictly between minimum and maximum
C5_Witness ==
  /\ call.fn = "calculateHistogram"
  /\ call.arg >= 4
  /\ population # <<>>
  /\ \E mn \in {MinOf(population).n}, mx \in {MaxOf(population).n} :
       /\ Cardinality({i \in 1..Len(population) : population[i] = mx}) >= 2
       /\ \E k \in 1..Len(population) :
            mn < population[k] /\ population[k] < mx

\* floor(n * (1 - c)) for the decimal value of the literal c
TailIndexOfDecimal(len, confidenceLevel) ==
  (len * (100 - Hundredths(confidenceLevel))) \div 100

\* C6: for a non-empty population calculateVaR returns the negation of the
\* element at index floor(n * (1 - c)) of the ascending sort, and for
\* [-10, -5, 0, 5, 10] at c = 0.8 the index is 1 and the result is 5.
C6_VaRIsNegatedOrderStatistic ==
  (call.fn = "calculateVaR" /\ population # <<>>) =>
    /\ call.ret = Neg(At(SortAsc(population),
                         TailIndexOfDecimal(Len(population), call.arg)))
    /\ (population = <<-10, -5, 0, 5, 10>> /\ call.arg = "0.8")
         => call.ret = FromInt(5)

\* C7: for a non-empty population calculateVaR(values, 0.99) is at least
\* calculateVaR(values, 0.95), and so VaR99 >= VaR95 in the result of
\* calculateStatistics.
C7_VaR99AtLeastVaR95 ==
  (call.fn = "calculateStatistics" /\ population # <<>>) =>
    /\ Le(call.ret.VaR95, call.ret.VaR99)
    /\ Le(calculateVaR(population, "0.95"), calculateVaR(population, "0.99"))

\* statistics of a population whose two thresholds differ
C7_Witness ==
  /\ call.fn = "calculateStatistics"
  /\ Lt(call.ret.VaR95, call.ret.VaR99)
  /\ TailIndex(Len(population), "0.99") >= 1

\* C8: with an empty tail, floor(n * (1 - confidenceLevel)) = 0,
\* calculateExpectedShortfall raises InsufficientSampleSize and returns no
\* non-finite number.
C8_EmptyTailIsReported ==
  (call.fn = "calculateExpectedShortfall"
     /\ TailIndex(Len(population), call.arg) = 0)
    => call.raised = "InsufficientSampleSize"

\* over the tail as calculateExpectedShortfall computes it, the binary64
\* floor of n * (1 - c), the result is the negated mean of that tail
ShortfallOverComputedTail ==
  LET varIndex == TailIndex(Len(population), call.arg)
      smallest == SubSeq(SortAsc(population), 1, varIndex)
  IN (call.fn = "calculateExpectedShortfall" /\ varIndex >= 1) =>
       /\ IsFinite(call.ret)
       /\ call.ret.n * varIndex = -SumSeq(smallest) * call.ret.d

\* C9: with varIndex = floor(n * (1 - confidenceLevel)) >= 1
\* calculateExpectedShortfall returns the negated arithmetic mean of the
\* varIndex smallest values, the element at varIndex excluded.
C9_ShortfallIsNegatedTailMean ==
  LET varIndex == TailIndexOfDecimal(Len(population), call.arg)
      smallest == SubSeq(SortAsc(population), 1, varIndex)
  IN (call.fn = "calculateExpectedShortfall" /\ varIndex >= 1) =>
       /\ IsFinite(call.ret)
       /\ call.ret.n * varIndex = -SumSeq(smallest) * call.ret.d

ElementsOf(seq) == {seq[i] : i \in 1..Len(seq)}

\* C10: for a non-empty population and requested percentiles p1 < p2 the
\* value reported for p1 is at most the value reported for p2.
C10_PercentilesMonotone ==
  (call.fn = "calculatePercentiles" /\ population # <<>>) =>
    \A p1, p2 \in ElementsOf(call.arg) :
      Hundredths(p1) < Hundredths(p2)
        => Le(call.ret[PercentileLabel(p1)], call.ret[PercentileLabel(p2)])

\* percentiles of an unsorted population, two of them different
C10_Witness ==
  /\ call.fn = "calculatePercentiles"
  /\ SortAsc(population) # population
  /\ \E p1, p2 \in ElementsOf(call.arg) :
       /\ Hundredths(p1) < Hundredths(p2)
       /\ Lt(call.ret[PercentileLabel(p1)], call.ret[PercentileLabel(p2)])

\* the label "p" followed by the decimal value of 100 * p
LabelOfDecimal(p) == [k |-> Hundredths(p), r |-> <<0, 0, 0>>]

\* floor(p * (n - 1)) for the decimal value of the literal p
RankOfDecimal(p, len) == (Hundredths(p) * (len - 1)) \div 100

\* over the label and the index as calculatePercentiles computes them, the
\* binary64 products, every requested percentile is stored and is the
\* element of the ascending sort at that index; the default list gives the
\* labels p1, p5, p10, p25, p50, p75, p90, p95, p99
PercentilesOverComputedRank ==
  (call.fn = "calculatePercentiles" /\ population # <<>>) =>
    /\ DOMAIN call.ret = {PercentileLabel(p) : p \in ElementsOf(call.arg)}
    /\ \A p \in ElementsOf(call.arg) :
         /\ call.ret[PercentileLabel(p)]
              = At(SortAsc(population),
                   PercentileIndex(p, Len(population)))
         /\ \E i \in 1..Len(population) :
              call.ret[PercentileLabel(p)] = FromInt(population[i])
    /\ call.arg = DefaultPercentiles =>
         DOMAIN call.ret
           = {[k |-> h, r |-> <<0, 0, 0>>] : h \in {1, 5, 10, 25, 50, 75, 90, 95, 99}}

\* C11: for a non-empty population and every requested percentile p,
\* calculatePercentiles stores under the label "p" followed by p * 100 the
\* element at index floor(p * (n - 1)) of the ascending sort; every
\* reported percentile is an element of the values.
C11_PercentileIsNearestRank ==
  (call.fn = "calculatePercentiles" /\ population # <<>>) =>
    \A p \in ElementsOf(call.arg) :
      /\ LabelOfDecimal(p) \in DOMAIN call.ret
      /\ call.ret[LabelOfDecimal(p)]
           = At(SortAsc(population), RankOfDecimal(p, Len(population)))

\* C12: calculateHistogram returns binCount + 1 bin edges and binCount
\* frequencies, and the bin edges are non-decreasing from first to last.
C12_HistogramShape ==
  call.fn = "calculateHistogram" =>
    /\ Len(call.ret.bins) = call.arg + 1
    /\ Len(call.ret.frequencies) = call.arg
    /\ \A i \in 1..call.arg : Le(call.ret.bins[i], call.ret.bins[i + 1])

\* a histogram of four or more bins over two or more different values:
\* the edges increase
C12_Witness ==
  /\ call.fn = "calculateHistogram"
  /\ call.arg >= 4
  /\ Lt(MinOf(population), MaxOf(population))
  /\ Lt(call.ret.bins[1], call.ret.bins[2])
  /\ Lt(call.ret.bins[call.arg], call.ret.bins[call.arg + 1])

\* C13: for a non-empty list the bin edges are evenly spaced, the first
\* edge is min(values) and the last edge is max(values).
C13_EdgesSpanPopulation ==
  (call.fn = "calculateHistogram" /\ population # <<>>) =>
    /\ NumEq(call.ret.bins[1], MinOf(population))
    /\ NumEq(call.ret.bins[call.arg + 1], MaxOf(population))
    /\ \A i \in 1..call.arg :
         NumEq(Add(call.ret.bins[i + 1], Neg(call.ret.bins[i])),
               Add(call.ret.bins[2], Neg(call.ret.bins[1])))

\* the part of C13 that holds: the edges are evenly spaced from
\* min(values), and the last edge is max(values) when the values differ
\* and min(values) + 1 when they are all equal
EdgesSpanSubstitutedRange ==
  (call.fn = "calculateHistogram" /\ population # <<>>) =>
    /\ NumEq(call.ret.bins[1], MinOf(population))
    /\ NumEq(call.ret.bins[call.arg + 1],
             IF Lt(MinOf(population), MaxOf(population))
               THEN MaxOf(population)
               ELSE Add(MinOf(population), FromInt(1)))
    /\ \A i \in 1..call.arg :
         NumEq(Add(call.ret.bins[i + 1], Neg(call.ret.bins[i])),
               Add(call.ret.bins[2], Neg(call.ret.bins[1])))

\* C14: calculateMaxDrawdown returns a value in [0, 1] for every
\* non-empty series.
C14_DrawdownInUnitInterval ==
  (call.fn = "calculateMaxDrawdown" /\ population # <<>>) =>
    InClosedRange(call.ret, 0, 1)

\* the maximum of the first i values of the series
RunningPeak(values, i) ==
  CHOOSE v \in {values[j] : j \in 1..i} :
    \A w \in {values[j] : j \in 1..i} : w <= v

\* (peak - value) / peak at position i
DrawdownAt(values, i) ==
  DivInt(RunningPeak(values, i) - values[i], RunningPeak(values, i))

\* C15: calculateMaxDrawdown returns the largest (peak - value) / peak over
\* all positions, peak being the maximum of the values seen so far; for
\* [100, 120, 90, 110, 80] the result is 1/3.
C15_DrawdownIsLargestRelativeDrop ==
  (call.fn = "calculateMaxDrawdown" /\ population # <<>>) =>
    /\ \E i \in 1..Len(population) :
         NumEq(call.ret, DrawdownAt(population, i))
    /\ \A i \in 1..Len(population) :
         Le(DrawdownAt(population, i), call.ret)
    /\ population = <<100, 120, 90, 110, 80>>
         => NumEq(call.ret, DivInt(1, 3))

\* the part of C15 that holds: on a series whose running peak is never 0
\* the result is the largest (peak - value) / peak
LargestDropOverNonzeroPeaks ==
  (/\ call.fn = "calculateMaxDrawdown"
   /\ population # <<>>
   /\ \A i \in 1..Len(population) : RunningPeak(population, i) # 0) =>
    /\ \E i \in 1..Len(population) :
         NumEq(call.ret, DrawdownAt(population, i))
    /\ \A i \in 1..Len(population) :
         Le(DrawdownAt(population, i), call.ret)
    /\ population = <<100, 120, 90, 110, 80>>
         => NumEq(call.ret, DivInt(1, 3))

\* C16: when the running peak is 0 at some step, calculateMaxDrawdown
\* returns a finite value.
C16_ZeroPeakIsHandled ==
  (/\ call.fn = "calculateMaxDrawdown"
   /\ \E i \in 1..Len(population) : RunningPeak(population, i) = 0) =>
    IsFinite(call.ret)

\* C17: for a non-empty values sequence probabilityOfAchievingTarget
\* returns the number of values >= targetReturn divided by the number of
\* values, a number in [0, 1]; for [1, 2, 3, 4, 5] and target 3 it is 3/5.
C17_ProbabilityIsEmpiricalShare ==
  (call.fn = "probabilityOfAchievingTarget" /\ population # <<>>) =>
    /\ IsFinite(call.ret)
    /\ call.ret.n * Len(population)
         = Len(SelectSeq(population, LAMBDA v : v >= call.arg)) * call.ret.d
    /\ InClosedRange(call.ret, 0, 1)
    /\ (population = <<1, 2, 3, 4, 5>> /\ call.arg = 3)
         => NumEq(call.ret, DivInt(3, 5))

\* a probability strictly between 0 and 1 with a value equal to the target
C17_Witness ==
  /\ call.fn = "probabilityOfAchievingTarget"
  /\ \E i \in 1..Len(population) : population[i] = call.arg
  /\ Lt(FromInt(0), call.ret)
  /\ Lt(call.ret, FromInt(1))

\* C18: when the return function raises in a trial the run aborts at that
\* trial: the raising call is the last one, nothing is pushed, no later
\* trial and no retry is executed and no SimulationResult is returned.
C18_RaiseAbortsRun ==
  [][\A r \in RunIds :
       /\ run[r].pc = "raised" => run'[r] = run[r]
       /\ \A j \in 1..Len(run'[r].calls) :
            run'[r].calls[j].raised
              => run'[r].pc = "raised" /\ j = Len(run'[r].calls)
       /\ (run[r].pc # "raised" /\ run'[r].pc = "raised") =>
            /\ run'[r].result = NoResult
            /\ run'[r].returns = run[r].returns
            /\ run'[r].i = run[r].i
            /\ Len(run'[r].calls) = run[r].i + 1
            /\ run'[r].calls[run[r].i + 1].raised]_vars

\* one run has been aborted in its first trial with trials left to run,
\* and one in a later trial, after a trial that returned
C18_Witness ==
  \E r, q \in RunIds :
    /\ run[r].pc = "raised"
    /\ run[r].i + 1 < run[r].numSimulations
    /\ run[q].pc = "raised"
    /\ run[q].i >= 1
    /\ Len(run[q].returns) = run[q].i

\* the uniforms the generator of run r returns to the path simulator in
\* the j-th trial: those after the four the two rate samples of the trial
\* take, every earlier trial having taken the same number
TrialPathUniforms(r, j) ==
  [t \in 1..PathDraws(run[r].params.months) |->
     StreamAt(run[r].rng.seed,
              (j - 1) * (4 + PathDraws(run[r].params.months)) + 4 + t)]

\* the path of the j-th trial of run r, computed again from the stream
TrialPath(r, j) ==
  simulateTokenPriceFluctuations(run[r].params.pricePerToken,
    run[r].params.tokenPriceDrift, run[r].params.tokenPriceVolatility,
    run[r].params.months, 1, TrialPathUniforms(r, j))

\* C19: in every trial of simulateTokenHolderReturnsWithPriceFluctuations
\* the third argument of the return function is the path generated in that
\* trial from the generator of the run after the two rate draws; it has
\* params.months elements and starts with params.pricePerToken.
C19_PathOfMonthsElements ==
  \A r \in RunIds :
    run[r].mode = "fluct" =>
      \A j \in 1..Len(run[r].calls) :
        /\ run[r].calls[j].tokenPrices = TrialPath(r, j)
        /\ run[r].calls[j].tokenPrices[1]
             = PriceOf(FromInt(run[r].params.pricePerToken))
        /\ Len(run[r].calls[j].tokenPrices) = run[r].params.months

\* what holds of the third argument: it is the path of the trial, drawn
\* from the generator of the run after the rate draws, it starts with
\* params.pricePerToken, and it has params.months elements unless months
\* is below 1, when it has one; the other orchestrator passes no path
PathOfTrialFromRunGenerator ==
  \A r \in RunIds :
    \A j \in 1..Len(run[r].calls) :
      IF run[r].mode = "fluct"
        THEN /\ run[r].rng.seed = FluctSeed
             /\ run[r].calls[j].tokenPrices = TrialPath(r, j)
             /\ run[r].calls[j].tokenPrices[1]
                  = PriceOf(FromInt(run[r].params.pricePerToken))
             /\ Len(run[r].calls[j].tokenPrices)
                  = (IF run[r].params.months >= 1
                       THEN run[r].params.months ELSE 1)
        ELSE run[r].calls[j].tokenPrices = NoPrices

\* a second trial has passed a path of three prices that moved
PathOfTrialReached ==
  \E r \in RunIds :
    /\ run[r].mode = "fluct"
    /\ Len(run[r].calls) >= 2
    /\ Len(run[r].calls[2].tokenPrices) = 3
    /\ run[r].calls[2].tokenPrices[3] # run[r].calls[2].tokenPrices[1]

\* the seed the orchestrator of run r passes to createRng
SeedOfRun(r) == IF run[r].mode = "plain" THEN PlainSeed ELSE FluctSeed

\* the number of calls of rng() one trial of run r makes
DrawsPerTrial(r) ==
  IF run[r].mode = "plain" THEN 4 ELSE 4 + PathDraws(run[r].params.months)

\* the t-th uniform of the j-th trial of run r in the sequence of its seed
OwnUniform(r, j, t) ==
  StreamAt(SeedOfRun(r), (j - 1) * DrawsPerTrial(r) + t)

\* C20: the two orchestrators use different fixed seeds and each call makes
\* its own generator, so whatever other run comes before, after or in
\* between the trials of a run, the run draws the sequence of its own
\* seed in order: its generator stands after the draws of its own trials,
\* each trial has used the next uniforms of that sequence, and two runs of
\* the same request agree on every trial both have made.
C20_RunsDrawFromOwnGenerator ==
  /\ PlainSeed # FluctSeed
  /\ \A r \in RunIds :
       run[r].pc # "idle" =>
         /\ run[r].rng = [kind |-> "seeded", seed |-> SeedOfRun(r),
                          pos |-> Len(run[r].calls) * DrawsPerTrial(r)]
         /\ \A j \in 1..Len(run[r].calls) :
              /\ run[r].calls[j].utilization
                   = Clamp(generateNormalDistribution(
                       run[r].params.utilizationMean,
                       run[r].params.utilizationStd, 1,
                       <<OwnUniform(r, j, 1), OwnUniform(r, j, 2)>>)[1])
              /\ run[r].calls[j].salvageRate
                   = Clamp(generateNormalDistribution(
                       run[r].params.salvageValueMean,
                       run[r].params.salvageValueStd, 1,
                       <<OwnUniform(r, j, 3), OwnUniform(r, j, 4)>>)[1])
              /\ run[r].mode = "fluct"
                   => run[r].calls[j].tokenPrices = TrialPath(r, j)
  /\ \A r, q \in RunIds :
       (run[r].mode = run[q].mode /\ run[r].params = run[q].params) =>
         \A j \in 1..Len(run[r].calls) :
           j <= Len(run[q].calls) => run[r].calls[j] = run[q].calls[j]

\* both runs are between two of their trials at the same time, one of
\* each orchestrator, and their seeds give different sequences
C20_Witness ==
  /\ streams[PlainSeed] # streams[FluctSeed]
  /\ \E r, q \in RunIds :
       /\ run[r].mode = "plain"
       /\ run[q].mode = "fluct"
       /\ run[r].pc = "loop"
       /\ run[q].pc = "loop"
       /\ run[r].i >= 1
       /\ run[q].i >= 1
       /\ run[r].i < run[r].numSimulations
       /\ run[q].i < run[q].numSimulations

\* both runs are between two of their trials on the same request
SameRequestInterleaved ==
  /\ run[1].mode = run[2].mode
  /\ run[1].params = run[2].params
  /\ \A r \in RunIds :
       run[r].pc = "loop" /\ run[r].i >= 1 /\ run[r].i < run[r].numSimulations

\* the sample generateNormalDistribution returned for the rate of the j-th
\* trial of run r that starts at the t-th uniform of the trial
OwnSample(r, j, t, mean, std) ==
  generateNormalDistribution(mean, std, 1,
    <<OwnUniform(r, j, t), OwnUniform(r, j, t + 1)>>)[1]

\* C21: a first Box-Muller uniform of exactly 0 is detected or guarded:
\* no sample of generateNormalDistribution and no price of a path is
\* non-finite.
C21_NoNonFiniteSample ==
  \A r \in RunIds :
    \A j \in 1..Len(run[r].calls) :
      /\ IsFinite(OwnSample(r, j, 1, run[r].params.utilizationMean,
                            run[r].params.utilizationStd))
      /\ IsFinite(OwnSample(r, j, 3, run[r].params.salvageValueMean,
                            run[r].params.salvageValueStd))
      /\ \A t \in 1..Len(run[r].calls[j].tokenPrices) :
           IsFinite(run[r].calls[j].tokenPrices[t].m)

\* what holds: a sample or a price is non-finite only in a trial one of
\* whose first Box-Muller uniforms was 0
NonFiniteOnlyFromZeroUniform ==
  \A r \in RunIds :
    \A j \in 1..Len(run[r].calls) :
      (\A t \in 1..DrawsPerTrial(r) : t % 2 = 1 => OwnUniform(r, j, t) # 0)
        => /\ IsFinite(OwnSample(r, j, 1, run[r].params.utilizationMean,
                                 run[r].params.utilizationStd))
           /\ IsFinite(OwnSample(r, j, 3, run[r].params.salvageValueMean,
                                 run[r].params.salvageValueStd))
           /\ \A t \in 1..Len(run[r].calls[j].tokenPrices) :
                IsFinite(run[r].calls[j].tokenPrices[t].m)

\* C22: a run requested with numSimulations <= 0 is rejected: it produces
\* no SimulationResult.
C22_NonPositiveCountRejected ==
  \A r \in RunIds :
    run[r].pc = "done" => run[r].numSimulations >= 1

\* what holds: a run with numSimulations <= 0 makes no trial and returns
\* the statistics of the empty list
EmptyRunReturnsStatistics ==
  \A r \in RunIds :
    (run[r].pc = "done" /\ run[r].numSimulations <= 0)
      => /\ run[r].calls = <<>>
         /\ run[r].result = calculateStatistics(<<>>)
         /\ run[r].result.values = <<>>

\* the parameters of the triangular call meet min <= mode <= max
ValidTriangle(a) == a.min <= a.mode /\ a.mode <= a.max

\* C23: generateTriangularDistribution called with parameters that break
\* min <= mode <= max is rejected with InvalidParameter and produces no
\* samples.
C23_InvalidTriangleRejected ==
  (call.fn = "generateTriangularDistribution" /\ ~ValidTriangle(call.arg))
    => call.raised = "InvalidParameter" /\ call.ret = <<>>

\* what holds: such a call returns count samples like any other
InvalidTriangleIsSampled ==
  (call.fn = "generateTriangularDistribution" /\ ~ValidTriangle(call.arg))
    => /\ call.raised = "none"
       /\ Len(call.ret) = call.arg.count
       /\ call.after - call.before = call.arg.count

\* C24: for min <= mode <= max, every count >= 0 and every generator,
\* generateTriangularDistribution returns count samples and every sample
\* lies in [min, max].
C24_TriangularSupport ==
  (call.fn = "generateTriangularDistribution" /\ ValidTriangle(call.arg))
    => /\ Len(call.ret) = call.arg.count
       /\ \A i \in 1..Len(call.ret) :
            /\ Le64(D64(call.arg.min), call.ret[i])
            /\ Le64(call.ret[i], D64(call.arg.max))

\* what holds: count samples are returned, one uniform is drawn for each,
\* and the samples lie in [min, max] when min, max and mode are whole
\* numbers, whose differences binary64 holds exactly
TriangularSupportOverWholeNumbers ==
  (call.fn = "generateTriangularDistribution" /\ ValidTriangle(call.arg))
    => /\ Len(call.ret) = call.arg.count
       /\ call.after - call.before = call.arg.count
       /\ (call.arg.min % 100 = 0 /\ call.arg.max % 100 = 0
             /\ call.arg.mode % 100 = 0)
            => \A i \in 1..Len(call.ret) :
                 /\ Le64(D64(call.arg.min), call.ret[i])
                 /\ Le64(call.ret[i], D64(call.arg.max))

\* two samples of a triangle over whole numbers with its mode inside, one
\* from each side of the mode
TriangularSupportReached ==
  /\ call.fn = "generateTriangularDistribution"
  /\ call.arg.min < call.arg.mode
  /\ call.arg.mode < call.arg.max
  /\ call.arg.count = 2
  /\ Lt64(call.ret[1], D64(call.arg.mode))
  /\ Lt64(D64(call.arg.mode), call.ret[2])

\* C25: for every timeSteps >= 0 simulateTokenPriceFluctuations returns
\* exactly timeSteps prices, the first being initialPrice, and draws two
\* uniforms for each price after the first and none for the first.
C25_PathHasTimeStepsPrices ==
  call.fn = "simulateTokenPriceFluctuations"
    => /\ Len(call.ret) = call.arg.timeSteps
       /\ call.ret[1] = PriceOf(FromInt(call.arg.initialPrice))
       /\ call.after - call.before = 2 * (Len(call.ret) - 1)

\* what holds: the path starts with initialPrice whatever timeSteps is, so
\* it has one price for timeSteps = 0 and timeSteps prices otherwise; two
\* uniforms are drawn for each price after the first
PathStartsWithInitialPrice ==
  call.fn = "simulateTokenPriceFluctuations"
    => /\ Len(call.ret)
            = (IF call.arg.timeSteps >= 1 THEN call.arg.timeSteps ELSE 1)
       /\ call.ret[1] = PriceOf(FromInt(call.arg.initialPrice))
       /\ call.after - call.before = 2 * (Len(call.ret) - 1)
       /\ Len(call.us) = call.after - call.before

\* a path of three prices drawn from a generator that had been drawn from
PathOfThreeReached ==
  /\ call.fn = "simulateTokenPriceFluctuations"
  /\ call.arg.timeSteps = 3
  /\ call.before >= 1
  /\ call.ret[3] # call.ret[2]
  /\ call.ret[2] # call.ret[1]

\* C26: given a finite, strictly positive initialPrice every price of the
\* path is strictly positive, for every drift, volatility, step count and
\* generator output.
C26_PricesStrictlyPositive ==
  (call.fn = "simulateTokenPriceFluctuations" /\ call.arg.initialPrice > 0)
    => \A t \in 1..Len(call.ret) : Lt(FromInt(0), call.ret[t].m)

\* what holds: the prices are strictly positive and finite when no first
\* Box-Muller uniform of the call is 0 and the steps are too few and too
\* small to leave the range of binary64
PricesPositiveWithoutZeroUniform ==
  (/\ call.fn = "simulateTokenPriceFluctuations"
   /\ call.arg.initialPrice > 0
   /\ call.arg.annualVolatility <= 30
   /\ call.arg.timeStepInMonths = 1
   /\ \A j \in 1..Len(call.us) : j % 2 = 1 => call.us[j] # 0)
    => \A t \in 1..Len(call.ret) :
         Lt(FromInt(0), call.ret[t].m) /\ IsFinite(call.ret[t].m)

\* a price is 0 in a path none of whose uniforms is 0
UnderflowWithoutZeroUniform ==
  /\ call.fn = "simulateTokenPriceFluctuations"
  /\ \A j \in 1..Len(call.us) : call.us[j] # 0
  /\ \E t \in 1..Len(call.ret) : call.ret[t].m = FromInt(0)

\* C27: calculateVaR, calculateExpectedShortfall, calculatePercentiles,
\* calculateHistogram and calculateStatistics leave their input with the
\* same elements in the same order, and the values of the result of
\* calculateStatistics are the input in its order.
C27_InputsUnchanged ==
  [][/\ population' = population
     /\ call'.fn = "calculateStatistics"
          => call'.ret.values = population]_vars

\* one of the functions that sort has returned on a list that is not in
\* ascending order
C27_Witness ==
  /\ call.fn \in SortingFunctions
  /\ \E i \in 1..(Len(population) - 1) : population[i] > population[i + 1]

\* C28: for the same parameters and the same return function the values
\* of a run of N trials are the first N values of a run of M > N trials,
\* for both orchestrators; every run starts from a generator seeded anew
\* and every trial takes 4 draws without price fluctuations and
\* 4 + 2 * (months - 1) with them when months >= 1.
C28_PrefixStability ==
  /\ \A r \in RunIds :
       run[r].pc # "idle" =>
         /\ run[r].rng.kind = "seeded"
         /\ run[r].mode = "plain"
              => run[r].rng.pos = 4 * Len(run[r].calls)
         /\ (run[r].mode = "fluct" /\ run[r].params.months >= 1)
              => run[r].rng.pos
                   = (4 + 2 * (run[r].params.months - 1)) * Len(run[r].calls)
  /\ \A r, q \in RunIds :
       (/\ run[r].pc = "done"
        /\ run[q].pc = "done"
        /\ run[r].mode = run[q].mode
        /\ run[r].params = run[q].params
        /\ run[r].numSimulations < run[q].numSimulations)
         => /\ Len(run[r].result.values) = run[r].numSimulations
            /\ run[r].result.values
                 = SubSeq(run[q].result.values, 1, run[r].numSimulations)

\* a finished run of one trial and a finished run of two trials of the
\* same request with price fluctuations, the two trials differing
C28_Witness ==
  \E r, q \in RunIds :
    /\ run[r].pc = "done"
    /\ run[q].pc = "done"
    /\ run[r].mode = "fluct"
    /\ run[q].mode = "fluct"
    /\ run[r].params = run[q].params
    /\ run[r].params.months >= 2
    /\ run[r].numSimulations = 1
    /\ run[q].numSimulations = 2
    /\ run[q].result.values[1] # run[q].result.values[2]

\* C29: for every population and confidence level with a non-empty tail,
\* floor(n * (1 - c)) >= 1, calculateExpectedShortfall(values, c) is at
\* least calculateVaR(values, c).
C29_ShortfallAtLeastVaR ==
  (call.fn = "calculateExpectedShortfall"
     /\ TailIndex(Len(population), call.arg) >= 1)
    => Le64(calculateVaROfDecimals(population, call.arg), call.ret)

\* what holds, under SpecStats: over whole numbers, whose sums binary64
\* holds exactly, the shortfall is at least the VaR
ShortfallAtLeastVaROverWholeNumbers ==
  (call.fn = "calculateExpectedShortfall"
     /\ TailIndex(Len(population), call.arg) >= 1)
    => Le(calculateVaR(population, call.arg), call.ret)

\* a shortfall strictly above the VaR, under SpecStats
ShortfallAboveVaRReached ==
  /\ call.fn = "calculateExpectedShortfall"
  /\ TailIndex(Len(population), call.arg) >= 2
  /\ Lt(calculateVaR(population, call.arg), call.ret)

\* the range calculateHistogram divides into bins, over the population
RangeOfPopulation ==
  IF Lt(MinOf(population), MaxOf(population))
    THEN MaxOf(population).n - MinOf(population).n
    ELSE 1

\* the 0-based bin the j-th value of the population is counted in
CountedIn(j) ==
  BinIndexOf(population[j], MinOf(population), MaxOf(population),
             RangeOfPopulation, call.arg)

\* C30: every value is counted by calculateHistogram in a bin whose edges
\* enclose it: a value counted in frequencies[i] lies in
\* [bins[i], bins[i+1]], for every non-empty list and binCount >= 1.
C30_BinEnclosesItsValues ==
  (call.fn = "calculateHistogram" /\ population # <<>> /\ call.arg >= 1)
    => \A j \in 1..Len(population) :
         /\ Le(call.ret.bins[CountedIn(j) + 1], FromInt(population[j]))
         /\ Le(FromInt(population[j]), call.ret.bins[CountedIn(j) + 2])

\* what holds: the bin encloses its values when the values are not all
\* equal
BinEnclosesValuesOfProperRange ==
  (/\ call.fn = "calculateHistogram"
   /\ call.arg >= 1
   /\ Lt(MinOf(population), MaxOf(population)))
    => \A j \in 1..Len(population) :
         /\ Le(call.ret.bins[CountedIn(j) + 1], FromInt(population[j]))
         /\ Le(FromInt(population[j]), call.ret.bins[CountedIn(j) + 2])

\* a histogram of four or more bins over values that fall into three or
\* more of them
ProperRangeReached ==
  /\ call.fn = "calculateHistogram"
  /\ call.arg >= 4
  /\ Cardinality({CountedIn(j) : j \in 1..Len(population)}) >= 3

====
